---- MODULE Spec2Model ----
(***************************************************************************)
(* NeoShare file server (src/server.py): request routing, path            *)
(* containment, whole-file / byte-range / archive delivery, multipart      *)
(* upload ingestion and JSON directory listing.                            *)
(*                                                                         *)
(* Text (URL paths, header values, file names, multipart bodies, file      *)
(* contents) is a sequence of tokens.  A token stands for a fixed run of   *)
(* characters ("/", ".", "share", "-other", "CRLF", ...); within one kind  *)
(* of text no token is a prefix of another, so a prefix / substring test   *)
(* on token sequences is the same test on the characters they stand for.   *)
(* Lengths are counted in tokens.                                          *)
(***************************************************************************)
EXTENDS Integers, Sequences, FiniteSets, TLC

VARIABLES fs, pc, req, loc, wire, nread, opened

vars == <<fs, pc, req, loc, wire, nread, opened>>

(***************************************************************************)
(* Python str / bytes methods used by the handlers.                        *)
(***************************************************************************)
Min(a, b) == IF a <= b THEN a ELSE b

\* s.startswith(p)
StartsWith(s, p) == Len(p) <= Len(s) /\ SubSeq(s, 1, Len(p)) = p

\* s.endswith(p)
EndsWith(s, p) == Len(p) <= Len(s) /\ SubSeq(s, Len(s) - Len(p) + 1, Len(s)) = p

\* s.find(p) + 1: the first position where p occurs in s, 0 when it does not
Find(s, p) ==
  LET hits == {i \in 1..(Len(s) - Len(p) + 1) : SubSeq(s, i, i + Len(p) - 1) = p}
  IN IF hits = {} THEN 0 ELSE CHOOSE i \in hits : \A j \in hits : i <= j

\* s.rfind(p) + 1: the last position where p occurs in s, 0 when it does not
RFind(s, p) ==
  LET hits == {i \in 1..(Len(s) - Len(p) + 1) : SubSeq(s, i, i + Len(p) - 1) = p}
  IN IF hits = {} THEN 0 ELSE CHOOSE i \in hits : \A j \in hits : i >= j

\* p in s
Contains(s, p) == Find(s, p) # 0

\* s.split(sep, 1): one or two pieces
Split1(s, sep) ==
  LET i == Find(s, sep)
  IN IF i = 0 THEN <<s>>
     ELSE <<SubSeq(s, 1, i - 1), SubSeq(s, i + Len(sep), Len(s))>>

\* s.rsplit(sep, 1): one or two pieces
RSplit1(s, sep) ==
  LET i == RFind(s, sep)
  IN IF i = 0 THEN <<s>>
     ELSE <<SubSeq(s, 1, i - 1), SubSeq(s, i + Len(sep), Len(s))>>

\* s.split(sep): every piece, left to right
RECURSIVE Split(_, _)
Split(s, sep) ==
  LET i == Find(s, sep)
  IN IF i = 0 THEN <<s>>
     ELSE <<SubSeq(s, 1, i - 1)>> \o Split(SubSeq(s, i + Len(sep), Len(s)), sep)

\* sep.join(pieces)
RECURSIVE Join(_, _)
Join(pieces, sep) ==
  IF pieces = <<>> THEN <<>>
  ELSE IF Len(pieces) = 1 THEN pieces[1]
  ELSE pieces[1] \o sep \o Join(Tail(pieces), sep)

\* s.replace(p, r)
Replace(s, p, r) == Join(Split(s, p), r)

\* s.lstrip(c) for a one-character c
RECURSIVE LStrip(_, _)
LStrip(s, c) == IF s # <<>> /\ s[1] = c THEN LStrip(Tail(s), c) ELSE s

\* s.rstrip(c) for a one-character c
RECURSIVE RStrip(_, _)
RStrip(s, c) ==
  IF s # <<>> /\ s[Len(s)] = c THEN RStrip(SubSeq(s, 1, Len(s) - 1), c) ELSE s

\* s[:-1] of a list
DropLast(l) == IF l = <<>> THEN <<>> ELSE SubSeq(l, 1, Len(l) - 1)

(***************************************************************************)
(* int(): decimal digits with an optional sign.                            *)
(***************************************************************************)
Digits == <<"0", "1", "2", "3", "4", "5", "6", "7", "8", "9">>

IsDigit(c) == \E d \in 1..10 : Digits[d] = c

DigitVal(c) == (CHOOSE d \in 1..10 : Digits[d] = c) - 1

RECURSIVE NatVal(_)
NatVal(s) ==
  IF s = <<>> THEN 0 ELSE 10 * NatVal(DropLast(s)) + DigitVal(s[Len(s)])

\* int(s) succeeds
IsInt(s) ==
  LET body == IF s # <<>> /\ s[1] \in {"-", "+"} THEN Tail(s) ELSE s
  IN body # <<>> /\ \A i \in 1..Len(body) : IsDigit(body[i])

\* int(s), for IsInt(s)
IntVal(s) ==
  IF s[1] = "-" THEN 0 - NatVal(Tail(s))
  ELSE IF s[1] = "+" THEN NatVal(Tail(s))
  ELSE NatVal(s)

(***************************************************************************)
(* urllib.parse and os.path.                                               *)
(***************************************************************************)
\* urlparse(self.path).path of a request target without query: the request
\* parser first reduces a run of leading slashes to one
UrlPath(target) ==
  IF StartsWith(target, <<"/", "/">>) THEN <<"/">> \o LStrip(target, "/") ELSE target

\* unquote(): percent escapes become the characters they encode
Unquote(s) ==
  [i \in 1..Len(s) |-> IF s[i] = "%2F" THEN "/" ELSE IF s[i] = "%2E" THEN "." ELSE s[i]]

\* os.path.join(a, b)
PathJoin(a, b) ==
  IF StartsWith(b, <<"/">>) THEN b
  ELSE IF a = <<>> \/ EndsWith(a, <<"/">>) THEN a \o b
  ELSE a \o <<"/">> \o b

DotDot == <<".", ".">>

\* the component loop of posixpath.normpath
RECURSIVE NormComps(_, _, _)
NormComps(comps, new, initial) ==
  IF comps = <<>> THEN new
  ELSE LET comp == Head(comps)
       IN IF comp = <<>> \/ comp = <<".">> THEN NormComps(Tail(comps), new, initial)
          ELSE IF comp # DotDot \/ (initial = 0 /\ new = <<>>)
                  \/ (new # <<>> /\ new[Len(new)] = DotDot)
               THEN NormComps(Tail(comps), Append(new, comp), initial)
          ELSE NormComps(Tail(comps), DropLast(new), initial)

\* posixpath.normpath(path)
NormPath(path) ==
  IF path = <<>> THEN <<".">>
  ELSE LET initial == IF ~StartsWith(path, <<"/">>) THEN 0
                      ELSE IF StartsWith(path, <<"/", "/">>)
                              /\ ~StartsWith(path, <<"/", "/", "/">>) THEN 2
                      ELSE 1
           joined == Join(NormComps(Split(path, <<"/">>), <<>>, initial), <<"/">>)
           out == [i \in 1..initial |-> "/"] \o joined
       IN IF out = <<>> THEN <<".">> ELSE out

\* os.path.abspath(path) of an absolute path
AbsPath(path) == NormPath(path)

\* basename that hands the client's name back whole
BaseName_Whole(p) == p

\* os.path.basename(p)
BaseName(p) ==
  LET i == RFind(p, <<"/">>) IN SubSeq(p, i + 1, Len(p))

(***************************************************************************)
(* Program constants and the served tree.                                  *)
(***************************************************************************)
\* MAX_UPLOAD_SIZE = 2 * 1024 * 1024 * 1024 bytes.  TLC's integers are 32 bits
\* wide and body lengths are counted in tokens, so the cap is kept as a number
\* far above every body's own length, three binary orders below the source's.
MAX_UPLOAD_SIZE == 2 * 1024 * 1024 * 128

\* the chunk size of f.read(8192) and min(8192, remaining)
CHUNK == 8192

\* httpd.serve_root (already absolute) and the script's own directory
SERVE_ROOT == <<"/", "srv", "/", "share">>

BASE_DIR == <<"/", "opt">>

STATIC_NAMES == {<<"index", ".", "html">>, <<"styles", ".", "css">>, <<"script", ".", "js">>}

Conns == {"c1", "c2"}

Dir == [kind |-> "dir", data |-> <<>>, readable |-> TRUE]

File(d) == [kind |-> "file", data |-> d, readable |-> TRUE]

Locked(d) == [kind |-> "file", data |-> d, readable |-> FALSE]

Child(d, name) == d \o <<"/">> \o name

DOCS == Child(SERVE_ROOT, <<"docs">>)

VAULT == Child(SERVE_ROOT, <<"vault">>)

SIBLING == <<"/", "srv", "/", "share", "-other">>

\* The tree on disk when the server starts: the served directory, a sibling
\* directory whose name extends the served directory's name, and the assets.
InitFS ==
  LET tree == <<
        <<<<"/">>, Dir>>,
        <<<<"/", "srv">>, Dir>>,
        <<SERVE_ROOT, Dir>>,
        <<Child(SERVE_ROOT, <<"empty">>), File(<<>>)>>,
        <<Child(SERVE_ROOT, <<"f">>), File(<<"x", "y", "z">>)>>,
        <<Child(SERVE_ROOT, <<"g", ".", "dat">>), File(<<"y", "x">>)>>,
        <<Child(SERVE_ROOT, <<"index", ".", "html">>), File(<<"z">>)>>,
        <<Child(SERVE_ROOT, <<"styles", ".", "css">>), Dir>>,
        <<Child(SERVE_ROOT, <<"taken">>), Dir>>,
        <<DOCS, Dir>>,
        <<Child(DOCS, <<"b", ".", "txt">>), File(<<"x">>)>>,
        <<Child(DOCS, <<"A", ".", "txt">>), File(<<"y", "y">>)>>,
        <<Child(DOCS, <<".", "secret">>), File(<<"z">>)>>,
        <<VAULT, Dir>>,
        <<Child(VAULT, <<"Memo">>), File(<<"x">>)>>,
        <<Child(VAULT, <<"memo">>), File(<<"y">>)>>,
        <<Child(VAULT, <<"key">>), Locked(<<"z">>)>>,
        <<SIBLING, Dir>>,
        <<Child(SIBLING, <<"x">>), File(<<"z", "z">>)>>,
        <<BASE_DIR, Dir>>,
        <<Child(BASE_DIR, <<"index", ".", "html">>), File(<<"<html>", "{{PATH}}">>)>>,
        <<Child(BASE_DIR, <<"styles", ".", "css">>), File(<<"css">>)>>
      >>
  IN [p \in {tree[i][1] : i \in 1..Len(tree)} |->
        (CHOOSE e \in {tree[i] : i \in 1..Len(tree)} : e[1] = p)[2]]

\* os.path.exists / isdir / isfile / os.access(R_OK) on a normalized path
Exists(d, p) == p \in DOMAIN d

IsDir(d, p) == p \in DOMAIN d /\ d[p].kind = "dir"

IsFile(d, p) == p \in DOMAIN d /\ d[p].kind = "file"

Readable(d, p) == p \in DOMAIN d /\ d[p].readable

\* os.listdir(p): the names directly inside directory p
ListDir(d, p) ==
  {SubSeq(q, Len(p) + 2, Len(q)) :
     q \in {r \in DOMAIN d : /\ StartsWith(r, p \o <<"/">>)
                             /\ Len(r) > Len(p) + 1
                             /\ ~Contains(SubSeq(r, Len(p) + 2, Len(r)), <<"/">>)}}

\* open(path, "wb"), then close: the file exists and is empty
Truncated(d, p) == [q \in DOMAIN d \cup {p} |-> IF q = p THEN File(<<>>) ELSE d[q]]

\* f.write(body) on the file opened at p
Written(d, p, body) == [q \in DOMAIN d \cup {p} |-> IF q = p THEN File(body) ELSE d[q]]

(***************************************************************************)
(* What a handler writes on its connection: status line with headers, and  *)
(* body bytes.  cl is the Content-Length header (NoCL: not sent), cr the   *)
(* Content-Range header as <<start, end, total>>.                          *)
(***************************************************************************)
NoCL == 0 - 1

Hd(code, kind, cl, cr) ==
  [k |-> "head", code |-> code, kind |-> kind, cl |-> cl, cr |-> cr, data |-> <<>>]

Dt(d) == [k |-> "data", code |-> 0, kind |-> "", cl |-> NoCL, cr |-> <<>>, data |-> d]

\* self.send_error(code, message): a complete error reply, whose body is the
\* generated error page (one token)
send_error(code) == <<Hd(code, "error", 1, <<>>), Dt(<<"<error page>">>)>>

Heads(w) == SelectSeq(w, LAMBDA it : it.k = "head")

RECURSIVE Body(_)
Body(w) ==
  IF w = <<>> THEN <<>>
  ELSE (IF Head(w).k = "data" THEN Head(w).data ELSE <<>>) \o Body(Tail(w))

\* self.headers.get(name, default)
Get(h, name, default) == IF name \in DOMAIN h THEN h[name] ELSE default

\* self.rfile.read(n) on what the client sends: its tokens, then pad NUL
\* bytes.  A negative n reads to the end of the stream.
Read(stream, n) ==
  IF n < 0 THEN stream
  ELSE [tokens |-> SubSeq(stream.tokens, 1, Min(n, Len(stream.tokens))),
        pad |-> IF n <= Len(stream.tokens) THEN 0
                ELSE Min(stream.pad, n - Len(stream.tokens))]

StreamLen(stream) == Len(stream.tokens) + stream.pad

\* the bytes read, the NUL run as one token
StreamData(stream) ==
  stream.tokens \o (IF stream.pad > 0 THEN <<"<NULs>">> ELSE <<>>)

NoStream == [tokens |-> <<>>, pad |-> 0]

NoQuery == [json |-> <<>>, download |-> <<>>]

NoHeaders == [n \in {} |-> <<>>]

NoReq ==
  [method |-> "", target |-> <<>>, qs |-> NoQuery, headers |-> NoHeaders,
   stream |-> NoStream, parts |-> <<>>, want |-> <<>>]

NoLoc ==
  [handler |-> "", path |-> <<>>, url_path |-> <<>>, file_size |-> 0,
   first |-> 0, last |-> 0, remaining |-> 0, pos |-> 0,
   parts |-> <<>>, i |-> 0, uploaded |-> <<>>, safe |-> <<>>, body |-> <<>>]

Init ==
  /\ fs = InitFS
  /\ pc = [c \in Conns |-> "idle"]
  /\ req = [c \in Conns |-> NoReq]
  /\ loc = [c \in Conns |-> NoLoc]
  /\ wire = [c \in Conns |-> <<>>]
  /\ nread = [c \in Conns |-> 0]
  /\ opened = [c \in Conns |-> <<>>]

\* A connection is accepted and its request line and headers are parsed.
Receive(c, requests) ==
  /\ pc[c] = "idle"
  /\ \E r \in requests :
       req' = [req EXCEPT ![c] = r]
  /\ pc' = [pc EXCEPT ![c] = "handle"]
  /\ UNCHANGED <<fs, loc, wire, nread, opened>>

(***************************************************************************)
(* do_GET                                                                  *)
(***************************************************************************)
\* rel = unquote(parsed.path.lstrip("/"))
Rel(target) == Unquote(LStrip(UrlPath(target), "/"))

\* target_path = os.path.abspath(os.path.join(serve_root, rel))
TargetPath(target) == AbsPath(PathJoin(AbsPath(SERVE_ROOT), Rel(target)))

\* the containment test of do_GET and do_POST: target_path.startswith(serve_root)
Contained(target_path) == StartsWith(target_path, AbsPath(SERVE_ROOT))

\* the chain with the archive test ahead of the JSON test
Route_ZipFirst(d, r) ==
  LET rel == Rel(r.target)
      target_path == TargetPath(r.target)
  IN IF ~Contained(target_path) THEN "forbidden"
     ELSE IF rel \in STATIC_NAMES THEN "serve_static"
     ELSE IF r.qs.download = <<"zip">> /\ IsDir(d, target_path) THEN "serve_archive"
     ELSE IF r.qs.json = <<"1">> /\ IsDir(d, target_path) THEN "serve_json_dir"
     ELSE IF IsFile(d, target_path) THEN "serve_file"
     ELSE IF IsDir(d, target_path) THEN "serve_dir"
     ELSE "not_found"

\* The conditional chain of do_GET: the handler the request is handed to.
Route(d, r) ==
  LET rel == Rel(r.target)
      target_path == TargetPath(r.target)
  IN IF ~Contained(target_path) THEN "forbidden"
     ELSE IF rel \in STATIC_NAMES THEN "serve_static"
     ELSE IF r.qs.json = <<"1">> /\ IsDir(d, target_path) THEN "serve_json_dir"
     ELSE IF r.qs.download = <<"zip">> /\ IsDir(d, target_path) THEN "serve_archive"
     ELSE IF IsFile(d, target_path) THEN "serve_file"
     ELSE IF IsDir(d, target_path) THEN "serve_dir"
     ELSE "not_found"

do_GET(c) ==
  /\ pc[c] = "handle"
  /\ req[c].method = "GET"
  /\ LET h == Route(fs, req[c])
         reply == IF h = "forbidden" THEN send_error(403)
                  ELSE IF h = "not_found" THEN send_error(404)
                  ELSE <<>>
     IN /\ loc' = [loc EXCEPT ![c] =
                     [@ EXCEPT !.handler = h,
                               !.url_path = UrlPath(req[c].target),
                               !.path = IF h = "serve_static"
                                        THEN PathJoin(BASE_DIR, Rel(req[c].target))
                                        ELSE TargetPath(req[c].target)]]
        /\ wire' = [wire EXCEPT ![c] = @ \o reply]
        /\ pc' = [pc EXCEPT ![c] = IF reply = <<>> THEN h ELSE "done"]
  /\ UNCHANGED <<fs, req, nread, opened>>

(***************************************************************************)
(* Name order: sorted(names) and sorted(names, key=str.lower).             *)
(***************************************************************************)
\* the tokens of file names, in the order of the strings they stand for
CODE_ORDER ==
  <<"-other", ".", "A", "Memo", "a", "b", "css", "dat", "docs", "empty", "etc",
    "evil", "f", "g", "html", "index", "js", "key", "memo", "notes", "passwd",
    "script", "secret", "styles", "sub", "taken", "txt", "vault", "x">>

Ord(t) == CHOOSE i \in 1..Len(CODE_ORDER) : CODE_ORDER[i] = t

\* str.lower
Lower(s) ==
  [i \in 1..Len(s) |-> IF s[i] = "A" THEN "a" ELSE IF s[i] = "Memo" THEN "memo" ELSE s[i]]

\* a < b for strings
RECURSIVE StrLess(_, _)
StrLess(a, b) ==
  IF b = <<>> THEN FALSE
  ELSE IF a = <<>> THEN TRUE
  ELSE IF a[1] = b[1] THEN StrLess(Tail(a), Tail(b))
  ELSE Ord(a[1]) < Ord(b[1])

Key(name, fold) == IF fold THEN Lower(name) ELSE name

\* every result sorted() can give for a directory's names, whatever order
\* os.listdir returned them in: names with equal keys keep that order
RECURSIVE SortedOrders(_, _)
SortedOrders(names, fold) ==
  IF names = {} THEN {<<>>}
  ELSE LET least == {n \in names :
                       \A m \in names : ~StrLess(Key(m, fold), Key(n, fold))}
       IN UNION {{<<n>> \o rest : rest \in SortedOrders(names \ {n}, fold)} : n \in least}

(***************************************************************************)
(* serve_static, serve_dir, serve_json_dir                                 *)
(***************************************************************************)
serve_static(c) ==
  /\ pc[c] = "serve_static"
  /\ LET path == loc[c].path
     IN wire' = [wire EXCEPT ![c] = @ \o
                   IF ~IsFile(fs, path) THEN send_error(404)
                   ELSE <<Hd(200, "static", Len(fs[path].data), <<>>), Dt(fs[path].data)>>]
  /\ pc' = [pc EXCEPT ![c] = "done"]
  /\ UNCHANGED <<fs, req, loc, nread, opened>>

serve_dir(c) ==
  /\ pc[c] = "serve_dir"
  /\ LET index_path == PathJoin(BASE_DIR, <<"index", ".", "html">>)
         page == Replace(fs[index_path].data, <<"{{PATH}}">>, loc[c].url_path)
     IN wire' = [wire EXCEPT ![c] = @ \o
                   IF ~Exists(fs, index_path) THEN send_error(500)
                   ELSE <<Hd(200, "dir", Len(page), <<>>), Dt(page)>>]
  /\ pc' = [pc EXCEPT ![c] = "done"]
  /\ UNCHANGED <<fs, req, loc, nread, opened>>

\* parent_path = "/".join(url_path.rstrip("/").split("/")[:-1]) or "/"
ParentPath(url_path) ==
  LET p == Join(DropLast(Split(RStrip(url_path, "/"), <<"/">>)), <<"/">>)
  IN IF p = <<>> THEN <<"/">> ELSE p

Entry(d, dir, name) ==
  [name |-> name, is_dir |-> IsDir(d, Child(dir, name)),
   size |-> Len(d[Child(dir, name)].data), path |-> <<>>]

\* the entries of a listing: the parent entry, then the names in the given
\* order without the dotfiles
Listing(d, dir, url_path, order) ==
  (IF url_path # <<"/">>
   THEN <<[name |-> DotDot, is_dir |-> TRUE, size |-> 0, path |-> ParentPath(url_path)]>>
   ELSE <<>>)
  \o [i \in 1..Len(SelectSeq(order, LAMBDA n : ~StartsWith(n, <<".">>))) |->
        Entry(d, dir, SelectSeq(order, LAMBDA n : ~StartsWith(n, <<".">>))[i])]

serve_json_dir(c) ==
  /\ pc[c] = "serve_json_dir"
  /\ \E order \in SortedOrders(ListDir(fs, loc[c].path), TRUE) :
       LET result == [path |-> loc[c].url_path,
                      entries |-> Listing(fs, loc[c].path, loc[c].url_path, order)]
       IN wire' = [wire EXCEPT ![c] = @ \o <<Hd(200, "json", 1, <<>>), Dt(<<result>>)>>]
  /\ pc' = [pc EXCEPT ![c] = "done"]
  /\ UNCHANGED <<fs, req, loc, nread, opened>>

(***************************************************************************)
(* serve_archive                                                           *)
(***************************************************************************)
RECURSIVE Flatten(_)
Flatten(ss) == IF ss = <<>> THEN <<>> ELSE Head(ss) \o Flatten(Tail(ss))

\* tarfile.add(path, arcname): the members in the order they are added, a
\* directory before its sorted contents; ok tells whether the file opens
RECURSIVE Walk(_, _, _)
Walk(d, p, arc) ==
  IF IsDir(d, p)
  THEN LET names == CHOOSE o \in SortedOrders(ListDir(d, p), FALSE) : TRUE
       IN <<[arc |-> arc, kind |-> "dir", data |-> <<>>, ok |-> TRUE]>>
          \o Flatten([i \in 1..Len(names) |->
                        Walk(d, Child(p, names[i]), Child(arc, names[i]))])
  ELSE <<[arc |-> arc, kind |-> "file", data |-> d[p].data, ok |-> d[p].readable]>>

\* how many members are written before one fails to open (all, if none fails)
Archived(members) ==
  LET bad == {i \in 1..Len(members) : ~members[i].ok}
  IN IF bad = {} THEN Len(members) ELSE (CHOOSE i \in bad : \A j \in bad : i <= j) - 1

serve_archive(c) ==
  /\ pc[c] = "serve_archive"
  /\ LET base == BaseName(RStrip(loc[c].path, "/"))
         folder_name == IF base = <<>> THEN <<"download">> ELSE base
         members == Walk(fs, loc[c].path, folder_name)
         n == Archived(members)
     IN wire' = [wire EXCEPT ![c] = @ \o
                   <<Hd(200, "archive", NoCL, <<>>), Dt(SubSeq(members, 1, n))>>
                   \o (IF n < Len(members) THEN send_error(500) ELSE <<>>)]
  /\ pc' = [pc EXCEPT ![c] = "done"]
  /\ UNCHANGED <<fs, req, loc, nread, opened>>

(***************************************************************************)
(* serve_file and serve_file_range                                         *)
(***************************************************************************)
\* f.read(n) at offset pos of the file open at path, as it is on disk now
FRead(d, path, pos, n) ==
  SubSeq(d[path].data, pos + 1, Min(pos + n, Len(d[path].data)))

\* serve_file up to the choice between a range and a whole-file reply:
\* the existence and permission checks and os.path.getsize
serve_file(c) ==
  /\ pc[c] = "serve_file"
  /\ LET path == loc[c].path
         reply == IF ~Exists(fs, path) THEN send_error(404)
                  ELSE IF ~Readable(fs, path) THEN send_error(403)
                  ELSE <<>>
     IN /\ wire' = [wire EXCEPT ![c] = @ \o reply]
        /\ loc' = [loc EXCEPT ![c] =
                     IF reply = <<>> THEN [@ EXCEPT !.file_size = Len(fs[path].data)] ELSE @]
        /\ pc' = [pc EXCEPT ![c] =
                    IF reply # <<>> THEN "done"
                    ELSE IF Get(req[c].headers, "Range", <<>>) # <<>> THEN "serve_file_range"
                    ELSE "file_open"]
  /\ UNCHANGED <<fs, req, nread, opened>>

\* open(path, "rb") and the 200 headers, Content-Length = file_size
file_open(c) ==
  /\ pc[c] = "file_open"
  /\ wire' = [wire EXCEPT ![c] = @ \o <<Hd(200, "file", loc[c].file_size, <<>>)>>]
  /\ loc' = [loc EXCEPT ![c] = [@ EXCEPT !.pos = 0]]
  /\ pc' = [pc EXCEPT ![c] = "file_stream"]
  /\ UNCHANGED <<fs, req, nread, opened>>

\* one turn of: chunk = f.read(8192); if not chunk: break; self.wfile.write(chunk)
file_stream(c) ==
  /\ pc[c] = "file_stream"
  /\ LET chunk == FRead(fs, loc[c].path, loc[c].pos, CHUNK)
     IN /\ wire' = [wire EXCEPT ![c] = IF chunk = <<>> THEN @ ELSE Append(@, Dt(chunk))]
        /\ loc' = [loc EXCEPT ![c] = [@ EXCEPT !.pos = @ + Len(chunk)]]
        /\ pc' = [pc EXCEPT ![c] = IF chunk = <<>> THEN "done" ELSE "file_stream"]
  /\ UNCHANGED <<fs, req, nread, opened>>

\* range_match = range_header.replace("bytes=", "").split("-")
RangeMatch(range_header) == Split(Replace(range_header, <<"bytes=">>, <<>>), <<"-">>)

\* the two int() calls and range_match[1] raise no exception
RangeParses(range_header) ==
  LET m == RangeMatch(range_header)
  IN /\ Len(m) >= 2
     /\ m[1] = <<>> \/ IsInt(m[1])
     /\ m[2] = <<>> \/ IsInt(m[2])

RangeStart(range_header) ==
  LET m == RangeMatch(range_header) IN IF m[1] # <<>> THEN IntVal(m[1]) ELSE 0

RangeEnd(range_header, file_size) ==
  LET m == RangeMatch(range_header) IN IF m[2] # <<>> THEN IntVal(m[2]) ELSE file_size - 1

\* the validation with "end > file_size" for "end >= file_size"
Unsatisfiable_OffByOne(start, end, file_size) ==
  start >= file_size \/ end > file_size \/ start > end

\* if start >= file_size or end >= file_size or start > end: 416
Unsatisfiable(start, end, file_size) ==
  start >= file_size \/ end >= file_size \/ start > end

\* serve_file_range up to the streaming loop: parse, validate, open, seek,
\* and the 206 headers
serve_file_range(c) ==
  /\ pc[c] = "serve_file_range"
  /\ LET range_header == req[c].headers["Range"]
         file_size == loc[c].file_size
         start == RangeStart(range_header)
         end == RangeEnd(range_header, file_size)
         content_length == end - start + 1
     IN IF ~RangeParses(range_header)
        THEN /\ wire' = [wire EXCEPT ![c] = @ \o send_error(500)]
             /\ pc' = [pc EXCEPT ![c] = "done"]
             /\ loc' = loc
        ELSE IF Unsatisfiable(start, end, file_size)
        THEN /\ wire' = [wire EXCEPT ![c] = @ \o send_error(416)]
             /\ pc' = [pc EXCEPT ![c] = "done"]
             /\ loc' = loc
        ELSE /\ wire' = [wire EXCEPT ![c] = @ \o
                           <<Hd(206, "range", content_length, <<start, end, file_size>>)>>]
             /\ loc' = [loc EXCEPT ![c] = [@ EXCEPT !.first = start, !.last = end,
                                                    !.pos = start,
                                                    !.remaining = content_length]]
             /\ pc' = [pc EXCEPT ![c] = "range_stream"]
  /\ UNCHANGED <<fs, req, nread, opened>>

\* one turn of the loop: while remaining > 0: read min(8192, remaining), stop
\* on an empty chunk, else write it
range_stream(c) ==
  /\ pc[c] = "range_stream"
  /\ LET chunk == FRead(fs, loc[c].path, loc[c].pos, Min(CHUNK, loc[c].remaining))
         left == loc[c].remaining - Len(chunk)
     IN /\ wire' = [wire EXCEPT ![c] = IF chunk = <<>> THEN @ ELSE Append(@, Dt(chunk))]
        /\ loc' = [loc EXCEPT ![c] = [@ EXCEPT !.pos = @ + Len(chunk), !.remaining = left]]
        /\ pc' = [pc EXCEPT ![c] = IF chunk = <<>> \/ left <= 0 THEN "done" ELSE "range_stream"]
  /\ UNCHANGED <<fs, req, nread, opened>>

(***************************************************************************)
(* do_POST                                                                 *)
(***************************************************************************)
CRLF == <<"CRLF">>

MULTIPART == <<"multipart/form-data">>

\* the checks of do_POST before the body is read, in the order of the code:
\* the name of the first one that fails, or "upload"
PostCheck(d, r) ==
  LET h == r.headers
      target == TargetPath(r.target)
      ctype == Get(h, "Content-Type", <<>>)
  IN IF "Content-Length" \in DOMAIN h /\ ~IsInt(h["Content-Length"]) THEN "bad_length"
     ELSE IF (IF "Content-Length" \in DOMAIN h THEN IntVal(h["Content-Length"]) ELSE 0)
             > MAX_UPLOAD_SIZE THEN "too_large"
     ELSE IF ~Contained(target) THEN "forbidden"
     ELSE IF ~IsDir(d, target) THEN "bad_target"
     ELSE IF ~Contains(ctype, MULTIPART) THEN "bad_ctype"
     ELSE IF Len(Split1(ctype, <<"boundary=">>)) < 2 THEN "read_error"
     ELSE "upload"

\* the status of the send_error that answers a failed check
PostStatus(check) ==
  CASE check = "bad_length" -> 400
    [] check = "too_large" -> 413
    [] check = "forbidden" -> 403
    [] check = "bad_target" -> 400
    [] check = "bad_ctype" -> 400
    [] check = "read_error" -> 500

\* length = int(self.headers.get("Content-Length", 0))
ContentLength(h) ==
  IF "Content-Length" \in DOMAIN h THEN IntVal(h["Content-Length"]) ELSE 0

\* do_POST up to the loop over the parts
do_POST(c) ==
  /\ pc[c] = "handle"
  /\ req[c].method = "POST"
  /\ LET check == PostCheck(fs, req[c])
         boundary == Split1(req[c].headers["Content-Type"], <<"boundary=">>)[2]
         data == Read(req[c].stream, ContentLength(req[c].headers))
     IN IF check # "upload"
        THEN /\ wire' = [wire EXCEPT ![c] = @ \o send_error(PostStatus(check))]
             /\ loc' = [loc EXCEPT ![c] = [@ EXCEPT !.handler = check]]
             /\ pc' = [pc EXCEPT ![c] = "done"]
             /\ nread' = nread
        ELSE /\ nread' = [nread EXCEPT ![c] = StreamLen(data)]
             /\ loc' = [loc EXCEPT ![c] =
                          [@ EXCEPT !.handler = "upload",
                                    !.path = TargetPath(req[c].target),
                                    !.parts = Split(StreamData(data), <<"--">> \o boundary),
                                    !.i = 1,
                                    !.uploaded = <<>>]]
             /\ pc' = [pc EXCEPT ![c] = "upload_part"]
             /\ wire' = wire
  /\ UNCHANGED <<fs, req, opened>>

\* header.decode(errors="ignore"): bytes that are no text are dropped
Decode(s) == SelectSeq(s, LAMBDA t : t # "<0xFF>")

FILENAME == <<"filename=\"">>

\* One part up to open(): whether it names a file to store ("file"), is
\* passed over ("skip") or raises ("error"); the stored name and the body.
PartFile(part) ==
  IF ~Contains(part, <<"Content-Disposition">>)
  THEN [what |-> "skip", safe |-> <<>>, body |-> <<>>]
  ELSE LET sp == Split1(part, CRLF \o CRLF)
           header == Decode(sp[1])
           fname == Split1(Split1(header, FILENAME)[2], <<"\"">>)[1]
       IN IF Len(sp) < 2 THEN [what |-> "error", safe |-> <<>>, body |-> <<>>]
          ELSE IF ~Contains(header, FILENAME) THEN [what |-> "skip", safe |-> <<>>, body |-> <<>>]
          ELSE IF fname = <<>> THEN [what |-> "skip", safe |-> <<>>, body |-> <<>>]
          ELSE [what |-> "file", safe |-> BaseName(fname), body |-> RSplit1(sp[2], CRLF)[1]]

\* open(file_path, "wb") raises: the path names a directory (also an empty,
\* "." or ".." name), or a file the server may not write
OpenFails(d, target, safe) ==
  \/ safe \in {<<>>, <<".">>, DotDot}
  \/ IsDir(d, PathJoin(target, safe))
  \/ Exists(d, PathJoin(target, safe)) /\ ~Readable(d, PathJoin(target, safe))

\* the loop with a part that raises ending the loop instead of continuing
upload_part_Abort(c) ==
  /\ pc[c] = "upload_part"
  /\ loc[c].i <= Len(loc[c].parts)
  /\ LET pf == PartFile(loc[c].parts[loc[c].i])
         file_path == PathJoin(loc[c].path, pf.safe)
     IN IF pf.what = "file" /\ ~OpenFails(fs, loc[c].path, pf.safe)
        THEN /\ fs' = Truncated(fs, file_path)
             /\ opened' = [opened EXCEPT ![c] = Append(@, file_path)]
             /\ loc' = [loc EXCEPT ![c] = [@ EXCEPT !.safe = pf.safe, !.body = pf.body]]
             /\ pc' = [pc EXCEPT ![c] = "upload_write"]
        ELSE /\ loc' = [loc EXCEPT ![c] =
                          [@ EXCEPT !.i = IF pf.what = "skip" THEN @ + 1
                                          ELSE Len(loc[c].parts) + 1]]
             /\ UNCHANGED <<fs, opened, pc>>
  /\ UNCHANGED <<req, wire, nread>>

\* one part of the loop, up to and including open(file_path, "wb")
upload_part(c) ==
  /\ pc[c] = "upload_part"
  /\ loc[c].i <= Len(loc[c].parts)
  /\ LET pf == PartFile(loc[c].parts[loc[c].i])
         file_path == PathJoin(loc[c].path, pf.safe)
     IN IF pf.what = "file" /\ ~OpenFails(fs, loc[c].path, pf.safe)
        THEN /\ fs' = Truncated(fs, file_path)
             /\ opened' = [opened EXCEPT ![c] = Append(@, file_path)]
             /\ loc' = [loc EXCEPT ![c] = [@ EXCEPT !.safe = pf.safe, !.body = pf.body]]
             /\ pc' = [pc EXCEPT ![c] = "upload_write"]
        ELSE /\ loc' = [loc EXCEPT ![c] = [@ EXCEPT !.i = @ + 1]]
             /\ UNCHANGED <<fs, opened, pc>>
  /\ UNCHANGED <<req, wire, nread>>

\* f.write(body), the close, and uploaded_files.append(safe)
upload_write(c) ==
  /\ pc[c] = "upload_write"
  /\ fs' = Written(fs, PathJoin(loc[c].path, loc[c].safe), loc[c].body)
  /\ loc' = [loc EXCEPT ![c] = [@ EXCEPT !.uploaded = Append(@, loc[c].safe), !.i = @ + 1]]
  /\ pc' = [pc EXCEPT ![c] = "upload_part"]
  /\ UNCHANGED <<req, wire, nread, opened>>

\* after the loop: the JSON reply
upload_reply(c) ==
  /\ pc[c] = "upload_part"
  /\ loc[c].i > Len(loc[c].parts)
  /\ LET response_data == [status |-> "success",
                           uploaded_files |-> loc[c].uploaded,
                           count |-> Len(loc[c].uploaded)]
     IN wire' = [wire EXCEPT ![c] = @ \o <<Hd(200, "upload", 1, <<>>), Dt(<<response_data>>)>>]
  /\ pc' = [pc EXCEPT ![c] = "done"]
  /\ UNCHANGED <<fs, req, loc, nread, opened>>

(***************************************************************************)
(* The requests clients send.                                              *)
(***************************************************************************)
\* largest byte position a Range header names, besides one two-digit value
MaxByte == 4

\* most parts in one multipart body
MaxParts == 2

\* str(n), n >= 0
RECURSIVE ToDigits(_)
ToDigits(n) ==
  IF n < 10 THEN <<Digits[n + 1]>> ELSE ToDigits(n \div 10) \o <<Digits[(n % 10) + 1]>>

Hdr(name, value) == [n \in {name} |-> value]

\* parts and want are the client's own record of what it encoded in the body
\* and in the Range header; no handler reads them
GET(target, json, download, headers, want) ==
  [method |-> "GET", target |-> target, qs |-> [json |-> json, download |-> download],
   headers |-> headers, stream |-> NoStream, parts |-> <<>>, want |-> want]

\* request targets: inside the root, at the root in several spellings,
\* absent, and leaving the root through "..", an escaped "/" or "."
Targets ==
  { <<"/">>,
    <<"/", "/">>,
    <<"/", ".">>,
    <<"/", "docs">>,
    <<"/", "docs", "/">>,
    <<"/", "/", "docs">>,
    <<"/", "docs", "/", ".", ".">>,
    <<"/", "docs", "/", "b", ".", "txt">>,
    <<"/", "docs", "/", ".", "secret">>,
    <<"/", "docs", "/", ".", ".", "/", "index", ".", "html">>,
    <<"/", "f">>,
    <<"/", "vault">>,
    <<"/", "vault", "/", "key">>,
    <<"/", "index", ".", "html">>,
    <<"/", "styles", ".", "css">>,
    <<"/", "script", ".", "js">>,
    <<"/", "nope">>,
    <<"/", ".", ".">>,
    <<"/", ".", ".", "/", ".", ".">>,
    <<"/", ".", ".", "/", "share">>,
    <<"/", ".", ".", "/", "share", "/", "docs">>,
    <<"/", ".", ".", "/", "share", "-other">>,
    <<"/", ".", ".", "/", "share", "-other", "/", "x">>,
    <<"/", "%2E", "%2E", "/", "share", "-other">>,
    <<"/", ".", ".", "/", "etc">>,
    <<"/", "%2F", "etc">>,
    <<"/", "%2F", "srv", "/", "share", "/", "f">> }

Queries ==
  {[json |-> j, download |-> z] :
     j \in {<<>>, <<"1">>, <<"0">>, <<"1", "1">>}, z \in {<<>>, <<"zip">>, <<"tar">>}}

RouteRequests == {GET(t, q.json, q.download, NoHeaders, <<>>) : t \in Targets, q \in Queries}

\* a missing position of a Range header
Missing == 0 - 1

Positions == {Missing, 12} \cup 0..MaxByte

Position(n) == IF n = Missing THEN <<>> ELSE ToDigits(n)

\* "bytes=a-b"
RangeHeader(a, b) == <<"bytes=">> \o Position(a) \o <<"-">> \o Position(b)

MalformedRanges ==
  { <<"bytes=", "2">>,
    <<"bytes=", "x", "-", "1">>,
    <<"bytes=", "0", "-", "0", ",", "2", "-", "2">>,
    <<"0", "-", "1">> }

RangeTargets ==
  { <<"/", "empty">>, <<"/", "f">>, <<"/", "g", ".", "dat">>,
    <<"/", "docs", "/", "b", ".", "txt">> }

RangeRequests ==
  {GET(t, <<>>, <<>>, Hdr("Range", RangeHeader(a, b)), <<a, b>>) :
     t \in RangeTargets, a \in Positions, b \in Positions}
  \cup {GET(t, <<>>, <<>>, Hdr("Range", r), <<>>) : t \in RangeTargets, r \in MalformedRanges}

\* what the client puts in one part of a multipart body
FilePart(fname, data) == [kind |-> "file", fname |-> fname, data |-> data]

PASSWD == <<"evil", "/", ".", ".", "/", ".", ".", "/", "etc", "/", "passwd">>

NOTES == <<"notes", ".", "txt">>

PartKinds ==
  { FilePart(PASSWD, <<"x">>),
    FilePart(NOTES, <<"y">>),
    FilePart(NOTES, <<"x", "CRLF", "y">>),
    FilePart(<<"f">>, <<>>),
    FilePart(<<"taken">>, <<"x">>),
    FilePart(<<"key">>, <<"x">>),
    FilePart(<<"sub", "/">>, <<"x">>),
    FilePart(<<"sub", "/", ".", ".">>, <<"x">>),
    FilePart(<<>>, <<"x">>),
    [kind |-> "field", fname |-> <<>>, data |-> <<"x">>],
    [kind |-> "nocd", fname |-> <<>>, data |-> <<"x">>],
    [kind |-> "nosplit", fname |-> NOTES, data |-> <<"x">>] }

DISPOSITION == <<"Content-Disposition", ": form-data; name=\"file\"">>

\* the bytes of one part, after its delimiter line
PartBytes(p) ==
  CASE p.kind = "file" ->
         DISPOSITION \o <<"; ">> \o FILENAME \o p.fname \o <<"\"">> \o CRLF
         \o <<"Content-Type: application/octet-stream">> \o CRLF \o CRLF \o p.data \o CRLF
    [] p.kind = "field" -> DISPOSITION \o CRLF \o CRLF \o p.data \o CRLF
    [] p.kind = "nocd" -> <<"Content-Type: text/plain">> \o CRLF \o CRLF \o p.data \o CRLF
    [] p.kind = "nosplit" ->
         DISPOSITION \o <<"; ">> \o FILENAME \o p.fname \o <<"\"">> \o CRLF \o p.data \o CRLF

\* a multipart/form-data body with boundary B
Encode(parts) ==
  Flatten([i \in 1..Len(parts) |-> <<"--", "B">> \o CRLF \o PartBytes(parts[i])])
  \o <<"--", "B", "--">> \o CRLF

FORM == MULTIPART \o <<"; ", "boundary=", "B">>

POST(target, headers, parts, pad) ==
  [method |-> "POST", target |-> target, qs |-> NoQuery, headers |-> headers,
   stream |-> [tokens |-> Encode(parts), pad |-> pad], parts |-> parts, want |-> <<>>]

PartLists == UNION {[1..n -> PartKinds] : n \in 0..MaxParts}

UploadTargets == {<<"/">>, <<"/", "docs">>, <<"/", "vault">>}

\* well-formed uploads: Content-Length is the length of the body
UploadRequests ==
  {POST(t, Hdr("Content-Length", ToDigits(Len(Encode(ps)))) @@ Hdr("Content-Type", FORM), ps, 0) :
     t \in UploadTargets, ps \in PartLists}

PostTargets ==
  { <<"/">>, <<"/", "docs">>, <<"/", "f">>, <<"/", "nope">>, <<"/", ".", ".">>,
    <<"/", ".", ".", "/", "share", "-other">>, <<"/", "%2F", "etc">> }

ONE_FILE == <<FilePart(NOTES, <<"y">>)>>

LengthHeaders ==
  {NoHeaders} \cup
  {Hdr("Content-Length", v) :
     v \in { <<>>, <<"x">>, <<"-", "1">>, <<"0">>, <<"5">>, <<"+", "7">>,
             ToDigits(Len(Encode(ONE_FILE))),
             ToDigits(MAX_UPLOAD_SIZE), ToDigits(MAX_UPLOAD_SIZE + 1) }}

TypeHeaders ==
  {NoHeaders} \cup
  {Hdr("Content-Type", v) :
     v \in { <<"text/plain">>, MULTIPART, FORM, MULTIPART \o <<"; ", "boundary=">> }}

\* uploads whose headers, target or declared length may be wrong; the client
\* may send more bytes than it declares
PostRequests ==
  {POST(t, l @@ ct, ONE_FILE, pad) :
     t \in PostTargets, l \in LengthHeaders, ct \in TypeHeaders,
     pad \in {0, MAX_UPLOAD_SIZE}}

Requests == RouteRequests \cup RangeRequests \cup UploadRequests \cup PostRequests

(***************************************************************************)
(* One connection at a time.                                               *)
(***************************************************************************)
Next ==
  \/ Receive("c1", Requests)
  \/ do_GET("c1")
  \/ serve_static("c1")
  \/ serve_dir("c1")
  \/ serve_json_dir("c1")
  \/ serve_archive("c1")
  \/ serve_file("c1")
  \/ file_open("c1")
  \/ file_stream("c1")
  \/ serve_file_range("c1")
  \/ range_stream("c1")
  \/ do_POST("c1")
  \/ upload_part("c1")
  \/ upload_write("c1")
  \/ upload_reply("c1")

Spec == Init /\ [][Next]_vars

(***************************************************************************)
(* A download and an upload on two connections at once.                    *)
(***************************************************************************)
ReaderRequests ==
  {GET(t, <<>>, <<>>, NoHeaders, <<>>) : t \in {<<"/", "f">>, <<"/", "g", ".", "dat">>}}
  \cup {GET(<<"/", "f">>, <<>>, <<>>, Hdr("Range", RangeHeader(a, b)), <<a, b>>) :
          a \in {Missing, 1}, b \in {Missing, 1}}

WriterRequests ==
  {POST(<<"/">>, Hdr("Content-Length", ToDigits(Len(Encode(ps)))) @@ Hdr("Content-Type", FORM),
        ps, 0) :
     ps \in { <<FilePart(<<"f">>, <<>>)>>,
              <<FilePart(<<"f">>, <<"y">>)>>,
              <<FilePart(<<"f">>, <<"z", "y", "x", "z">>)>>,
              <<FilePart(NOTES, <<"y">>), FilePart(<<"g", ".", "dat">>, <<"z">>)>> }}

NextConc ==
  \/ Receive("c1", ReaderRequests)
  \/ Receive("c2", WriterRequests)
  \/ \E c \in Conns :
       \/ do_GET(c)
       \/ serve_file(c)
       \/ file_open(c)
       \/ file_stream(c)
       \/ serve_file_range(c)
       \/ range_stream(c)
       \/ do_POST(c)
       \/ upload_part(c)
       \/ upload_write(c)
       \/ upload_reply(c)

SpecConc == Init /\ [][NextConc]_vars

(***************************************************************************)
(* What a finished request shows.                                          *)
(***************************************************************************)
Done(c) == pc[c] = "done"

\* the first status line written on the connection
Reply(c) == Heads(wire[c])[1]

\* the normalized target is the serving root or lies under root + "/"
Inside(target_path) ==
  target_path = SERVE_ROOT \/ StartsWith(target_path, SERVE_ROOT \o <<"/">>)

\* the handlers that read or write the tree for a request
Serving ==
  {"serve_static", "serve_json_dir", "serve_archive", "serve_file", "serve_dir", "upload"}

\* C1: every GET and POST whose normalized target is neither the serving root
\* nor under root + "/" is answered 403 (or turned down by an earlier check of
\* the request itself) and reaches no listing, file, archive or upload handler.
C1_Containment ==
  \A c \in Conns :
    (loc[c].handler # "" /\ ~Inside(TargetPath(req[c].target)))
      => /\ loc[c].handler \notin Serving
         /\ loc[c].handler \notin {"bad_length", "too_large"} => Reply(c).code = 403

JsonAsked(r) == r.qs.json = <<"1">>

ZipAsked(r) == r.qs.download = <<"zip">>

\* the handler the precedence of the specification gives a contained GET
Precedence(static, dir, file, json, zip) ==
  IF static THEN "serve_static"
  ELSE IF dir /\ json THEN "serve_json_dir"
  ELSE IF dir /\ zip THEN "serve_archive"
  ELSE IF file THEN "serve_file"
  ELSE IF dir THEN "serve_dir"
  ELSE "not_found"

\* the kinds of reply each handler writes first
RepliesOf(h) ==
  CASE h = "serve_static" -> {"static", "error"}
    [] h = "serve_json_dir" -> {"json"}
    [] h = "serve_archive" -> {"archive"}
    [] h = "serve_file" -> {"file", "range", "error"}
    [] h = "serve_dir" -> {"dir"}
    [] h = "not_found" -> {"error"}

\* C2: a GET that passes containment is handed to exactly the handler the
\* precedence names: static asset, JSON listing, archive, file, directory
\* page, else 404; the static names shadow the tree and json=1 beats
\* download=zip.
C2_Precedence ==
  \A c \in Conns :
    (req[c].method = "GET" /\ loc[c].handler \notin {"", "forbidden"})
      => LET t == TargetPath(req[c].target)
             h == Precedence(Rel(req[c].target) \in STATIC_NAMES,
                             t \in DOMAIN InitFS /\ InitFS[t].kind = "dir",
                             t \in DOMAIN InitFS /\ InitFS[t].kind = "file",
                             JsonAsked(req[c]), ZipAsked(req[c]))
         IN /\ loc[c].handler = h
            /\ Done(c) => /\ Reply(c).kind \in RepliesOf(h)
                          /\ h = "not_found" => Reply(c).code = 404

\* C2 witness: json=1 and download=zip on a directory got the JSON listing,
\* and a static name that is also a file of the tree got the asset
C2_Witness ==
  /\ Done("c1")
  /\ loc["c1"].handler = "serve_json_dir"
  /\ JsonAsked(req["c1"]) /\ ZipAsked(req["c1"])
  /\ Reply("c1").kind = "json"

\* C9: the body is read only after the declared length was checked, and a
\* POST never reads more than MAX_UPLOAD_SIZE bytes of it.
C9_ReadBound ==
  \A c \in Conns :
    /\ nread[c] >= 0
    /\ nread[c] <= MAX_UPLOAD_SIZE
    /\ nread[c] > 0 => loc[c].handler = "upload"

\* C10: a connection carries at most one status line, whatever fails after
\* the first one was sent.
C10_OneReply == \A c \in Conns : Len(Heads(wire[c])) <= 1

\* the bytes a range request asks for and the size of the file it names
WantStart(r) == IF r.want[1] = Missing THEN 0 ELSE r.want[1]

WantEnd(r, n) == IF r.want[2] = Missing THEN n - 1 ELSE r.want[2]

RangeAnswered(c) == Done(c) /\ req[c].want # <<>> /\ loc[c].handler = "serve_file"

LastComponent(fname) == LET segs == Split(fname, <<"/">>) IN segs[Len(segs)]

\* a part that names a file whose write can complete in directory target
Storable(target, p) ==
  /\ p.kind = "file"
  /\ p.fname # <<>>
  /\ LET n == LastComponent(p.fname)
     IN /\ n \notin {<<>>, <<".">>, DotDot}
        /\ Child(target, n) \in DOMAIN InitFS =>
             InitFS[Child(target, n)].kind = "file" /\ InitFS[Child(target, n)].readable

\* the names an upload of these parts stores in target, in part order
StoredNames(target, parts) ==
  LET kept == SelectSeq(parts, LAMBDA p : Storable(target, p))
  IN [i \in 1..Len(kept) |-> LastComponent(kept[i].fname)]

\* the body the handler read is all of a body with boundary B
WholeBody(c) ==
  /\ loc[c].handler = "upload"
  /\ req[c].headers["Content-Type"] = FORM
  /\ req[c].stream.pad = 0
  /\ nread[c] = Len(req[c].stream.tokens)

\* C4: an upload stores each file under the base component of the client's
\* file name, which holds no "/", directly inside the resolved target
\* directory; it writes nowhere else, and the stored names are the ones
\* reported in uploaded_files.
C4_StoredNames ==
  \A c \in Conns :
    loc[c].handler = "upload" =>
      LET target == TargetPath(req[c].target)
          names == IF pc[c] = "upload_write" THEN Append(loc[c].uploaded, loc[c].safe)
                   ELSE loc[c].uploaded
      IN /\ Len(opened[c]) = Len(names)
         /\ \A i \in 1..Len(names) :
              /\ ~Contains(names[i], <<"/">>)
              /\ opened[c][i] = target \o <<"/">> \o names[i]
              /\ IsFile(fs, opened[c][i])
         /\ \A p \in DOMAIN fs :
              (\A i \in 1..Len(opened[c]) : opened[c][i] # p)
                => p \in DOMAIN InitFS /\ fs[p] = InitFS[p]
         /\ (Done(c) /\ WholeBody(c)) =>
              /\ names = StoredNames(target, req[c].parts)
              /\ Body(wire[c])[1].uploaded_files = names

\* C4 witness: the parts "evil/../../etc/passwd" and "notes.txt" were stored
\* as passwd and notes.txt in the target, count 2
C4_Witness ==
  /\ Done("c1") /\ WholeBody("c1")
  /\ Len(req["c1"].parts) = 2
  /\ req["c1"].parts[1].fname = PASSWD
  /\ req["c1"].parts[2].fname = NOTES
  /\ opened["c1"] = <<Child(DOCS, <<"passwd">>), Child(DOCS, NOTES)>>
  /\ Body(wire["c1"])[1].uploaded_files = <<<<"passwd">>, NOTES>>
  /\ Body(wire["c1"])[1].count = 2

\* C5: a POST is turned down at the first failing check, in the order
\* Content-Length unparseable 400, too large 413, target outside the root 403,
\* target no directory 400, Content-Type not multipart/form-data with a
\* boundary 400, with no body byte read and no file written; only a request
\* that passes them all is ingested.
C5_PostChecks ==
  \A c \in Conns :
    (req[c].method = "POST" /\ pc[c] # "handle") =>
      LET h == req[c].headers
          t == TargetPath(req[c].target)
          ctype == Get(h, "Content-Type", <<>>)
          expected ==
            IF "Content-Length" \in DOMAIN h /\ ~IsInt(h["Content-Length"]) THEN 400
            ELSE IF ContentLength(h) > MAX_UPLOAD_SIZE THEN 413
            ELSE IF ~Contained(t) THEN 403
            ELSE IF ~(t \in DOMAIN InitFS /\ InitFS[t].kind = "dir") THEN 400
            ELSE IF ~(Contains(ctype, MULTIPART) /\ Contains(ctype, <<"boundary=">>)) THEN 400
            ELSE 0
      IN IF expected = 0 THEN loc[c].handler = "upload"
         ELSE /\ Done(c)
              /\ wire[c] = send_error(expected)
              /\ nread[c] = 0
              /\ opened[c] = <<>>
              /\ fs = InitFS

\* C6: a file reply's Content-Length is the number of body bytes written,
\* also when an upload rewrites the file while it is being served.
C6_ContentLength ==
  \A c \in Conns :
    (Done(c) /\ Heads(wire[c]) # <<>> /\ Reply(c).kind \in {"file", "range"})
      => Reply(c).cl = Len(Body(wire[c]))

\* C7: ingestion handles the parts in body order and a part that fails or is
\* passed over never stops the later ones: the reply is 200 with status
\* "success", uploaded_files is the names of the parts whose write
\* completed, in part order, and count is its length.
C7_UploadReply ==
  \A c \in Conns :
    (Done(c) /\ loc[c].handler = "upload") =>
      /\ Len(wire[c]) = 2
      /\ Reply(c).code = 200
      /\ LET response == Body(wire[c])[1]
         IN /\ response.status = "success"
            /\ response.count = Len(response.uploaded_files)
            /\ \A i \in 1..Len(response.uploaded_files) :
                 IsFile(fs, Child(TargetPath(req[c].target), response.uploaded_files[i]))
            /\ WholeBody(c) =>
                 response.uploaded_files = StoredNames(TargetPath(req[c].target), req[c].parts)

\* C7 witness: a part without the blank line after its headers failed, a
\* part naming a directory failed to open, and the part after them was stored
C7_Witness ==
  /\ Done("c1") /\ WholeBody("c1")
  /\ Len(req["c1"].parts) = 2
  /\ req["c1"].parts[1].kind = "nosplit"
  /\ req["c1"].parts[2] = FilePart(NOTES, <<"y">>)
  /\ Body(wire["c1"])[1].uploaded_files = <<NOTES>>
  /\ Body(wire["c1"])[1].count = 1

\* the URL path without its last segment, "/" when nothing is left
WithoutLastSegment(url_path) ==
  LET segs == SelectSeq(Split(url_path, <<"/">>), LAMBDA x : x # <<>>)
  IN IF Len(segs) <= 1 THEN <<"/">> ELSE <<"/">> \o Join(DropLast(segs), <<"/">>)

\* C8: a JSON listing holds no name starting with "." but the synthetic "..";
\* its real entries are the directory's other names in case-insensitive
\* order; ".." is there, first, exactly when the listed directory is not the
\* serving root, with the URL path minus its last segment as its path.
C8_Listing ==
  \A c \in Conns :
    (Done(c) /\ loc[c].handler = "serve_json_dir") =>
      LET entries == Body(wire[c])[1].entries
          dir == TargetPath(req[c].target)
          parent == entries # <<>> /\ entries[1].name = DotDot
          first == IF parent THEN 2 ELSE 1
      IN /\ \A i \in first..Len(entries) : ~StartsWith(entries[i].name, <<".">>)
         /\ {entries[i].name : i \in first..Len(entries)}
              = {n \in ListDir(fs, dir) : ~StartsWith(n, <<".">>)}
         /\ \A i, j \in first..Len(entries) :
              i < j => StrLess(Lower(entries[i].name), Lower(entries[j].name))
                       \/ Lower(entries[i].name) = Lower(entries[j].name)
         /\ parent <=> dir # SERVE_ROOT
         /\ parent => entries[1].path = WithoutLastSegment(UrlPath(req[c].target))

====
